---- MODULE Spec2Model ----
(***************************************************************************)
(* Model of the model-iteration engine of the default theory               *)
(* (theory_lib/default/iterate.py): the difference calculator, the         *)
(* difference-constraint builder, the isomorphism guard, the escalated     *)
(* constraint and the iteration driver.                                    *)
(*                                                                         *)
(* A solved valuation (a z3 model) is a record giving the extension of the *)
(* five base predicates verifies, falsifies, is_part_of, possible and      *)
(* is_world over the states 0 .. 2^N - 1, plus the set of predicate kinds  *)
(* whose evaluation on that model raises.  A solver constraint is a        *)
(* conjunction (sequence) of disjunctions (sets) of terms; a candidate     *)
(* valuation satisfies it when every disjunction has a term that holds.    *)
(***************************************************************************)
EXTENDS Integers, Sequences, FiniteSets, TLC

\* ---------------------------------------------------------------- bounds
\* Width of the state bit-vectors.
N == 2
\* Longest list of previous models handed to the constraint builder.
MaxPrev == 2
\* Largest requested number of distinct models.
MaxIterations == 3
\* Largest number of consecutive isomorphic rediscoveries before the driver stops.
MaxEscapeAttempts == 3
\* latest time of a world's interval (times are 0 .. MaxTime)
MaxTime == 3

\* ------------------------------------------------------------ data model
NumStates == 2 ^ N
all_states == 0 .. (NumStates - 1)
Top == NumStates - 1
\* model_structure.sentence_letters, in list order
sentence_letters == <<"p", "q">>
Letters == {sentence_letters[i] : i \in 1 .. Len(sentence_letters)}
NoLetter == "-"

Kinds == {"verifies", "falsifies", "is_part_of", "possible", "is_world"}

StatePairs == all_states \X all_states
IdentityRel == {pr \in StatePairs : pr[1] = pr[2]}
LeqRel == {pr \in StatePairs : pr[1] <= pr[2]}

NoVerifiers == [l \in Letters |-> {}]
TopVerifiesP == [l \in Letters |-> IF l = "p" THEN {Top} ELSE {}]
ZeroVerifiesP == [l \in Letters |-> IF l = "p" THEN {0} ELSE {}]
AllVerifyQ == [l \in Letters |-> IF l = "q" THEN all_states ELSE {}]
AllVerifyP == [l \in Letters |-> IF l = "p" THEN all_states ELSE {}]
ZeroTopVerifyP == [l \in Letters |-> IF l = "p" THEN {0, Top} ELSE {}]

\* prev_model.eval(expr, model_completion=True) raises for every instance of
\* the kinds in prev_model.faulty and returns the stored truth value otherwise.
EvalRaises(z3_model, kind) == kind \in z3_model.faulty

EvalVerifies(z3_model, letter, state) == state \in z3_model.verifies[letter]
EvalFalsifies(z3_model, letter, state) == state \in z3_model.falsifies[letter]
EvalIsPartOf(z3_model, state1, state2) == <<state1, state2>> \in z3_model.is_part_of
EvalPossible(z3_model, state) == state \in z3_model.possible
EvalIsWorld(z3_model, state) == state \in z3_model.is_world

\* ------------------------------------------------------ constraint terms
\* pred(instance) != prev_value
NeqTerm(kind, letter, state1, state2, prev_value) ==
    [kind |-> kind, letter |-> letter, s1 |-> state1, s2 |-> state2,
     val |-> prev_value, rel |-> "!=", num |-> 0]
\* count-expression rel num   (world_count, ver_count, fals_count, parthood_count)
CountTerm(kind, letter, rel, num) ==
    [kind |-> kind, letter |-> letter, s1 |-> 0, s2 |-> 0,
     val |-> FALSE, rel |-> rel, num |-> num]
\* all_verify / none_verify / all_falsify / none_falsify of a letter
ExtremeTerm(kind, letter) ==
    [kind |-> kind, letter |-> letter, s1 |-> 0, s2 |-> 0,
     val |-> FALSE, rel |-> "and", num |-> 0]

Compare(x, rel, y) ==
    CASE rel = "<" -> x < y
      [] rel = ">" -> x > y
      [] rel = "<=" -> x <= y
      [] rel = ">=" -> x >= y
      [] rel = "==" -> x = y

\* z3.Sum([z3.If(pred(state), 1, 0) ...]) in a candidate valuation
WorldCount(cand) == Cardinality(cand.is_world)
VerCount(cand, letter) == Cardinality(cand.verifies[letter])
FalsCount(cand, letter) == Cardinality(cand.falsifies[letter])
ParthoodCount(cand) == Cardinality({pr \in cand.is_part_of : pr[1] # pr[2]})

\* Truth of one term in a candidate valuation.
Holds(cand, term) ==
    CASE term.kind = "verifies" -> EvalVerifies(cand, term.letter, term.s1) # term.val
      [] term.kind = "falsifies" -> EvalFalsifies(cand, term.letter, term.s1) # term.val
      [] term.kind = "is_part_of" -> EvalIsPartOf(cand, term.s1, term.s2) # term.val
      [] term.kind = "possible" -> EvalPossible(cand, term.s1) # term.val
      [] term.kind = "is_world" -> EvalIsWorld(cand, term.s1) # term.val
      [] term.kind = "world_count" -> Compare(WorldCount(cand), term.rel, term.num)
      [] term.kind = "ver_count" -> Compare(VerCount(cand, term.letter), term.rel, term.num)
      [] term.kind = "fals_count" -> Compare(FalsCount(cand, term.letter), term.rel, term.num)
      [] term.kind = "parthood_count" -> Compare(ParthoodCount(cand), term.rel, term.num)
      [] term.kind = "all_verify" -> cand.verifies[term.letter] = all_states
      [] term.kind = "none_verify" -> cand.verifies[term.letter] = {}
      [] term.kind = "all_falsify" -> cand.falsifies[term.letter] = all_states
      [] term.kind = "none_falsify" -> cand.falsifies[term.letter] = {}

\* z3.Or(list)
HoldsOr(cand, disjunction) == \E term \in disjunction : Holds(cand, term)
\* z3.And(list of z3.Or)
Satisfies(cand, conj) == \A i \in 1 .. Len(conj) : HoldsOr(cand, conj[i])

VARIABLES
    pc,                 \* position of the operation under way
    has_is_part_of,     \* hasattr(semantics, 'is_part_of')
    previous_models,    \* argument of _create_difference_constraint
    diff_constraint,    \* its outcome: a constraint, or the RuntimeError
    new_structure,      \* arguments of _calculate_default_differences
    previous_structure,
    differences,        \* the Difference Record it returns
    example,            \* the valuations satisfying the example's own constraints
    max_iterations,     \* requested number of distinct models
    found_models,       \* accepted models, the initial model first
    solver_constraints, \* constraints added to the example's
    escape_attempts,    \* consecutive isomorphic rediscoveries
    candidate,          \* the model of the latest raw solve, while it is examined
    result,             \* what the iteration returned
    rediscovered_model, \* argument of the two structural-break builders
    guard_constraint,   \* what _create_non_isomorphic_constraint returned
    stronger_constraints, \* what _create_stronger_constraint returned, per escape attempt
    world_time_intervals, \* semantics.world_time_intervals
    leftarg_extension,  \* leftarg.proposition.extension (the argument's, for a unary operator)
    rightarg_extension, \* rightarg.proposition.extension
    new_truth_condition \* what the operator's evaluation gave

buildVars == <<previous_models, diff_constraint>>
calcVars == <<new_structure, previous_structure, differences>>
driverVars == <<example, max_iterations, found_models, solver_constraints,
                escape_attempts, candidate, result>>
breakVars == <<rediscovered_model, guard_constraint, stronger_constraints>>
temporalVars == <<world_time_intervals, leftarg_extension, rightarg_extension,
                  new_truth_condition>>
vars == <<pc, has_is_part_of, buildVars, calcVars, driverVars, breakVars, temporalVars>>

\* ------------------------------------- _create_difference_constraint
\* The diff_components of one previous model: one term per predicate instance
\* whose evaluation on prev_model did not raise.
DiffComponentsWith(sem_has_part, prev_model) ==
    (IF EvalRaises(prev_model, "verifies") THEN {}
     ELSE {NeqTerm("verifies", l, s, s, EvalVerifies(prev_model, l, s)) :
              l \in Letters, s \in all_states})
    \cup
    (IF EvalRaises(prev_model, "falsifies") THEN {}
     ELSE {NeqTerm("falsifies", l, s, s, EvalFalsifies(prev_model, l, s)) :
              l \in Letters, s \in all_states})
    \cup
    (IF ~sem_has_part \/ EvalRaises(prev_model, "is_part_of") THEN {}
     ELSE {NeqTerm("is_part_of", NoLetter, s1, s2, EvalIsPartOf(prev_model, s1, s2)) :
              s1 \in all_states, s2 \in all_states})
    \cup
    (IF EvalRaises(prev_model, "possible") THEN {}
     ELSE {NeqTerm("possible", NoLetter, s, s, EvalPossible(prev_model, s)) :
              s \in all_states})
    \cup
    (IF EvalRaises(prev_model, "is_world") THEN {}
     ELSE {NeqTerm("is_world", NoLetter, s, s, EvalIsWorld(prev_model, s)) :
              s \in all_states})

\* model_diff_constraints: one z3.Or per previous model that has components.
RECURSIVE ModelDiffConstraints(_, _)
ModelDiffConstraints(sem_has_part, prev_models) ==
    IF prev_models = <<>> THEN <<>>
    ELSE LET diff_components == DiffComponentsWith(sem_has_part, Head(prev_models))
         IN  (IF diff_components # {} THEN <<diff_components>> ELSE <<>>)
             \o ModelDiffConstraints(sem_has_part, Tail(prev_models))

RuntimeError == [raised |-> TRUE, conj |-> <<>>]
Returned(conj) == [raised |-> FALSE, conj |-> conj]

\* only the most recent previous model constrained
create_difference_constraint_latest(sem_has_part, prev_models) ==
    LET model_diff_constraints ==
            IF prev_models = <<>> THEN <<>>
            ELSE ModelDiffConstraints(sem_has_part, <<prev_models[Len(prev_models)]>>)
    IN  IF model_diff_constraints # <<>>
        THEN Returned(model_diff_constraints)
        ELSE RuntimeError

\* z3.And of the empty list returned instead of raising
create_difference_constraint_vacuous(sem_has_part, prev_models) ==
    Returned(ModelDiffConstraints(sem_has_part, prev_models))

\* the disjunction of a model without components kept as an empty z3.Or
create_difference_constraint_empty_or(sem_has_part, prev_models) ==
    IF ModelDiffConstraints(sem_has_part, prev_models) # <<>>
    THEN Returned([i \in 1 .. Len(prev_models) |->
                      DiffComponentsWith(sem_has_part, prev_models[i])])
    ELSE RuntimeError

create_difference_constraint(sem_has_part, prev_models) ==
    LET model_diff_constraints == ModelDiffConstraints(sem_has_part, prev_models)
    IN  IF model_diff_constraints # <<>>
        THEN Returned(model_diff_constraints)
        ELSE RuntimeError

\* ------------------------------------- _calculate_default_differences
\* A Model Structure: the solved valuation and the world / possible-state
\* collections the structure derives from it.
StructureOf(z3_model) ==
    [z3_model |-> z3_model,
     z3_world_states |-> {s \in all_states : EvalIsWorld(z3_model, s)},
     z3_possible_states |-> {s \in all_states : EvalPossible(z3_model, s)}]

OldWorlds(prev_struct) == prev_struct.z3_world_states
NewWorlds(new_struct) == new_struct.z3_world_states
OldStates(prev_struct) == prev_struct.z3_possible_states
NewStates(new_struct) == new_struct.z3_possible_states

\* the 'not in old_worlds' test left out
WorldsAddedUnfiltered(new_struct, prev_struct) == NewWorlds(new_struct)

WorldsAdded(new_struct, prev_struct) ==
    {world \in NewWorlds(new_struct) : world \notin OldWorlds(prev_struct)}
\* the second loop iterating new_worlds again instead of old_worlds
WorldsRemovedFromNew(new_struct, prev_struct) ==
    {world \in NewWorlds(new_struct) : world \notin OldWorlds(prev_struct)}

WorldsRemoved(new_struct, prev_struct) ==
    {world \in OldWorlds(prev_struct) : world \notin NewWorlds(new_struct)}
PossibleAdded(new_struct, prev_struct) ==
    {state \in NewStates(new_struct) : state \notin OldStates(prev_struct)}
PossibleRemoved(new_struct, prev_struct) ==
    {state \in OldStates(prev_struct) : state \notin NewStates(new_struct)}

\* The four evaluations of one state share one try block: the first one that
\* raises abandons the rest of that state.  ReachesK says evaluation K of the
\* state completes.
Reaches1(new_struct, prev_struct, state) ==
    ~(state \in OldStates(prev_struct) /\ EvalRaises(prev_struct.z3_model, "verifies"))
Reaches2(new_struct, prev_struct, state) ==
    /\ Reaches1(new_struct, prev_struct, state)
    /\ ~(state \in NewStates(new_struct) /\ EvalRaises(new_struct.z3_model, "verifies"))
Reaches3(new_struct, prev_struct, state) ==
    /\ Reaches2(new_struct, prev_struct, state)
    /\ ~(state \in OldStates(prev_struct) /\ EvalRaises(prev_struct.z3_model, "falsifies"))
Reaches4(new_struct, prev_struct, state) ==
    /\ Reaches3(new_struct, prev_struct, state)
    /\ ~(state \in NewStates(new_struct) /\ EvalRaises(new_struct.z3_model, "falsifies"))

UnionStates(new_struct, prev_struct) == OldStates(prev_struct) \cup NewStates(new_struct)

old_verifiers(new_struct, prev_struct, letter) ==
    {state \in UnionStates(new_struct, prev_struct) :
        /\ state \in OldStates(prev_struct)
        /\ Reaches1(new_struct, prev_struct, state)
        /\ EvalVerifies(prev_struct.z3_model, letter, state)}
new_verifiers(new_struct, prev_struct, letter) ==
    {state \in UnionStates(new_struct, prev_struct) :
        /\ state \in NewStates(new_struct)
        /\ Reaches2(new_struct, prev_struct, state)
        /\ EvalVerifies(new_struct.z3_model, letter, state)}
old_falsifiers(new_struct, prev_struct, letter) ==
    {state \in UnionStates(new_struct, prev_struct) :
        /\ state \in OldStates(prev_struct)
        /\ Reaches3(new_struct, prev_struct, state)
        /\ EvalFalsifies(prev_struct.z3_model, letter, state)}
new_falsifiers(new_struct, prev_struct, letter) ==
    {state \in UnionStates(new_struct, prev_struct) :
        /\ state \in NewStates(new_struct)
        /\ Reaches4(new_struct, prev_struct, state)
        /\ EvalFalsifies(new_struct.z3_model, letter, state)}

added_verifiers(new_struct, prev_struct, letter) ==
    new_verifiers(new_struct, prev_struct, letter) \ old_verifiers(new_struct, prev_struct, letter)
removed_verifiers(new_struct, prev_struct, letter) ==
    old_verifiers(new_struct, prev_struct, letter) \ new_verifiers(new_struct, prev_struct, letter)
added_falsifiers(new_struct, prev_struct, letter) ==
    new_falsifiers(new_struct, prev_struct, letter) \ old_falsifiers(new_struct, prev_struct, letter)
removed_falsifiers(new_struct, prev_struct, letter) ==
    old_falsifiers(new_struct, prev_struct, letter) \ new_falsifiers(new_struct, prev_struct, letter)

\* every letter recorded, the 'if added_verifiers or ...' test left out
LetterAlwaysRecorded(new_struct, prev_struct, letter) == TRUE

\* "Only record differences if something changed"
LetterChanged(new_struct, prev_struct, letter) ==
    \/ added_verifiers(new_struct, prev_struct, letter) # {}
    \/ removed_verifiers(new_struct, prev_struct, letter) # {}
    \/ added_falsifiers(new_struct, prev_struct, letter) # {}
    \/ removed_falsifiers(new_struct, prev_struct, letter) # {}

LetterEntry(new_struct, prev_struct, letter) ==
    [old |-> <<old_verifiers(new_struct, prev_struct, letter),
               old_falsifiers(new_struct, prev_struct, letter)>>,
     new |-> <<new_verifiers(new_struct, prev_struct, letter),
               new_falsifiers(new_struct, prev_struct, letter)>>,
     verifiers |-> [added |-> added_verifiers(new_struct, prev_struct, letter),
                    removed |-> removed_verifiers(new_struct, prev_struct, letter)],
     falsifiers |-> [added |-> added_falsifiers(new_struct, prev_struct, letter),
                     removed |-> removed_falsifiers(new_struct, prev_struct, letter)]]

SentenceLetterDifferences(new_struct, prev_struct) ==
    [letter \in {l \in Letters : LetterChanged(new_struct, prev_struct, l)} |->
        LetterEntry(new_struct, prev_struct, letter)]

\* all_states = list(old_states.union(new_states)); state2 ranges over
\* all_states[i:], identical states skipped: each pair of distinct states is
\* visited once, the state earlier in the list first.  The list is taken in
\* ascending order of the state values.
VisitedPairs(new_struct, prev_struct) ==
    {pr \in UnionStates(new_struct, prev_struct) \X UnionStates(new_struct, prev_struct) :
        pr[1] < pr[2]}

PairEvaluated(new_struct, prev_struct, pr) ==
    /\ ~(/\ pr[1] \in OldStates(prev_struct) /\ pr[2] \in OldStates(prev_struct)
         /\ EvalRaises(prev_struct.z3_model, "is_part_of"))
    /\ ~(/\ pr[1] \in NewStates(new_struct) /\ pr[2] \in NewStates(new_struct)
         /\ EvalRaises(new_struct.z3_model, "is_part_of"))

\* the previous model asked whatever the endpoints
old_parthood_unchecked(prev_struct, pr) ==
    EvalIsPartOf(prev_struct.z3_model, pr[1], pr[2])

old_parthood(prev_struct, pr) ==
    /\ pr[1] \in OldStates(prev_struct) /\ pr[2] \in OldStates(prev_struct)
    /\ EvalIsPartOf(prev_struct.z3_model, pr[1], pr[2])
new_parthood(new_struct, pr) ==
    /\ pr[1] \in NewStates(new_struct) /\ pr[2] \in NewStates(new_struct)
    /\ EvalIsPartOf(new_struct.z3_model, pr[1], pr[2])

\* keyed by the pair (the code's key is the string "state1,state2")
ParthoodDifferences(sem_has_part, new_struct, prev_struct) ==
    [pr \in {q \in VisitedPairs(new_struct, prev_struct) :
                /\ sem_has_part
                /\ PairEvaluated(new_struct, prev_struct, q)
                /\ old_parthood(prev_struct, q) # new_parthood(new_struct, q)} |->
        [old |-> old_parthood(prev_struct, pr), new |-> new_parthood(new_struct, pr)]]

calculate_default_differences(sem_has_part, new_struct, prev_struct) ==
    [worlds |-> [added |-> WorldsAdded(new_struct, prev_struct),
                 removed |-> WorldsRemoved(new_struct, prev_struct)],
     possible_states |-> [added |-> PossibleAdded(new_struct, prev_struct),
                          removed |-> PossibleRemoved(new_struct, prev_struct)],
     sentence_letters |-> SentenceLetterDifferences(new_struct, prev_struct),
     parthood |-> ParthoodDifferences(sem_has_part, new_struct, prev_struct)]

\* ------------------------------------------- _calculate_differences
\* What a call of new_structure.detect_model_differences does: it raises, or
\* it returns a theory-specific result.  {} is the empty (falsy) result.
EmptyResult == [k \in {} |-> {}]
HookOutcomes ==
    {[raises |-> TRUE, differences |-> EmptyResult],
     [raises |-> FALSE, differences |-> EmptyResult],
     [raises |-> FALSE, differences |-> [theory |-> {"changed"}]],
     [raises |-> FALSE,
      differences |-> [worlds |-> [added |-> {}, removed |-> {}],
                       possible_states |-> [added |-> {}, removed |-> {}],
                       sentence_letters |-> EmptyResult,
                       parthood |-> EmptyResult]]}

\* A Model Structure that provides the hook.
HookedStructure(z3_model, hook) ==
    [z3_model |-> z3_model,
     z3_world_states |-> {s \in all_states : EvalIsWorld(z3_model, s)},
     z3_possible_states |-> {s \in all_states : EvalPossible(z3_model, s)},
     detect_model_differences |-> hook]

\* the hook trusted: its result returned whatever it is, its exception
\* propagated
calculate_differences_unguarded(sem_has_part, new_struct, prev_struct) ==
    IF "detect_model_differences" \in DOMAIN new_struct
    THEN IF new_struct.detect_model_differences.raises
         THEN [raised |-> TRUE]
         ELSE new_struct.detect_model_differences.differences
    ELSE calculate_default_differences(sem_has_part, new_struct, prev_struct)

calculate_differences(sem_has_part, new_struct, prev_struct) ==
    IF /\ "detect_model_differences" \in DOMAIN new_struct
       /\ ~new_struct.detect_model_differences.raises
       /\ new_struct.detect_model_differences.differences # EmptyResult
    THEN new_struct.detect_model_differences.differences
    ELSE calculate_default_differences(sem_has_part, new_struct, prev_struct)

\* -------------------------------- _create_non_isomorphic_constraint
\* What a structural-break builder returns: None, or z3.Or(constraints).
NoneResult == [none |-> TRUE, conj |-> <<>>]
OrResult(constraints) ==
    IF constraints # {} THEN [none |-> FALSE, conj |-> <<constraints>>] ELSE NoneResult

\* current_worlds / current_ver / current_fals: counts over all_states
CurrentWorlds(z3_model) == Cardinality({s \in all_states : EvalIsWorld(z3_model, s)})
CurrentVer(z3_model, letter) ==
    Cardinality({s \in all_states : EvalVerifies(z3_model, letter, s)})
CurrentFals(z3_model, letter) ==
    Cardinality({s \in all_states : EvalFalsifies(z3_model, letter, s)})

\* both deviations offered whatever the count
GuardWorldTermsBothWays(z3_model) ==
    IF EvalRaises(z3_model, "is_world") THEN {}
    ELSE {CountTerm("world_count", NoLetter, "<", CurrentWorlds(z3_model)),
          CountTerm("world_count", NoLetter, ">", CurrentWorlds(z3_model))}

\* First try block: fewer worlds when there is more than one, more worlds when
\* fewer than all but one; nothing when the count cannot be evaluated.
GuardWorldTerms(z3_model) ==
    IF EvalRaises(z3_model, "is_world") THEN {}
    ELSE LET current_worlds == CurrentWorlds(z3_model)
         IN  (IF current_worlds > 1
              THEN {CountTerm("world_count", NoLetter, "<", current_worlds)} ELSE {})
             \cup
             (IF current_worlds < Cardinality(all_states) - 1
              THEN {CountTerm("world_count", NoLetter, ">", current_worlds)} ELSE {})

\* the band closed at the current count
GuardVerTermsInclusive(z3_model, letter) ==
    IF CurrentVer(z3_model, letter) > 1
    THEN {CountTerm("ver_count", letter, "<=", CurrentVer(z3_model, letter))}
    ELSE {CountTerm("ver_count", letter, ">=", CurrentVer(z3_model, letter))}

GuardVerTerms(z3_model, letter) ==
    LET current_ver == CurrentVer(z3_model, letter)
    IN  IF current_ver > 1
        THEN {CountTerm("ver_count", letter, "<", current_ver - 1)}
        ELSE IF current_ver < Cardinality(all_states) - 1
             THEN {CountTerm("ver_count", letter, ">", current_ver + 1)}
             ELSE {}

GuardFalsTerms(z3_model, letter) ==
    LET current_fals == CurrentFals(z3_model, letter)
    IN  IF current_fals > 1
        THEN {CountTerm("fals_count", letter, "<", current_fals - 1)}
        ELSE IF current_fals < Cardinality(all_states) - 1
             THEN {CountTerm("fals_count", letter, ">", current_fals + 1)}
             ELSE {}

\* Second try block: the loop over sentence_letters from position i on; an
\* evaluation that raises ends the loop and keeps what was appended before.
RECURSIVE GuardLetterTerms(_, _)
GuardLetterTerms(z3_model, i) ==
    IF i > Len(sentence_letters) THEN {}
    ELSE IF EvalRaises(z3_model, "verifies") THEN {}
    ELSE GuardVerTerms(z3_model, sentence_letters[i])
         \cup (IF EvalRaises(z3_model, "falsifies") THEN {}
               ELSE GuardFalsTerms(z3_model, sentence_letters[i])
                    \cup GuardLetterTerms(z3_model, i + 1))

\* the constraint left out: None returned although components exist
create_non_isomorphic_constraint_none(z3_model) == NoneResult

\* z3.Or returned also for an empty list of components
create_non_isomorphic_constraint_empty_or(z3_model) ==
    [none |-> FALSE,
     conj |-> <<GuardWorldTerms(z3_model) \cup GuardLetterTerms(z3_model, 1)>>]

create_non_isomorphic_constraint(z3_model) ==
    OrResult(GuardWorldTerms(z3_model) \cup GuardLetterTerms(z3_model, 1))

\* --------------------------------------- _create_stronger_constraint
\* the later attempts keeping the first attempt's bound beside the extremes
StrongerWorldTermsCumulative(isomorphic_model, escape_attempt) ==
    IF EvalRaises(isomorphic_model, "is_world") THEN {}
    ELSE (IF CurrentWorlds(isomorphic_model) > Cardinality(all_states) \div 2
          THEN {CountTerm("world_count", NoLetter, "<=", 2)}
          ELSE {CountTerm("world_count", NoLetter, ">=", Cardinality(all_states) - 2)})
         \cup (IF escape_attempt = 1 THEN {}
               ELSE {CountTerm("world_count", NoLetter, "==", 1),
                     CountTerm("world_count", NoLetter, "==", Cardinality(all_states))})

StrongerWorldTerms(isomorphic_model, escape_attempt) ==
    IF EvalRaises(isomorphic_model, "is_world") THEN {}
    ELSE LET current_worlds == CurrentWorlds(isomorphic_model)
         IN  IF escape_attempt = 1
             THEN IF current_worlds > Cardinality(all_states) \div 2
                  THEN {CountTerm("world_count", NoLetter, "<=", 2)}
                  ELSE {CountTerm("world_count", NoLetter, ">=", Cardinality(all_states) - 2)}
             ELSE {CountTerm("world_count", NoLetter, "==", 1),
                   CountTerm("world_count", NoLetter, "==", Cardinality(all_states))}

StrongerLetterTerms ==
    UNION {{ExtremeTerm("all_verify", l), ExtremeTerm("none_verify", l),
            ExtremeTerm("all_falsify", l), ExtremeTerm("none_falsify", l)} : l \in Letters}

\* current_parts: pairs of distinct states in the relation; an evaluation that
\* raises is skipped and counts nothing
CurrentParts(isomorphic_model) ==
    IF EvalRaises(isomorphic_model, "is_part_of") THEN 0
    ELSE Cardinality({pr \in StatePairs :
                         pr[1] # pr[2] /\ EvalIsPartOf(isomorphic_model, pr[1], pr[2])})

MaxPossible == Cardinality(all_states) * (Cardinality(all_states) - 1)

\* many part relations demanded whatever the current count
StrongerParthoodTermsAlwaysMany(sem_has_part, isomorphic_model) ==
    IF ~sem_has_part THEN {}
    ELSE {CountTerm("parthood_count", NoLetter, ">=", (3 * MaxPossible) \div 4)}

StrongerParthoodTerms(sem_has_part, isomorphic_model) ==
    IF ~sem_has_part THEN {}
    ELSE IF CurrentParts(isomorphic_model) > MaxPossible \div 2
         THEN {CountTerm("parthood_count", NoLetter, "<=", MaxPossible \div 4)}
         ELSE {CountTerm("parthood_count", NoLetter, ">=", (3 * MaxPossible) \div 4)}

create_stronger_constraint(sem_has_part, isomorphic_model, escape_attempt) ==
    OrResult(StrongerWorldTerms(isomorphic_model, escape_attempt)
             \cup StrongerLetterTerms
             \cup StrongerParthoodTerms(sem_has_part, isomorphic_model))

\* ------------------------------------------------ builder specification
AllFaulty == Kinds

BuildModels ==
    [verifies : {NoVerifiers, TopVerifiesP},
     falsifies : {NoVerifiers},
     is_part_of : {IdentityRel},
     possible : {all_states},
     is_world : {{0}, {Top}},
     faulty : {{}, {"is_world"}, AllFaulty}]

Candidates ==
    [verifies : {NoVerifiers, TopVerifiesP},
     falsifies : {NoVerifiers, TopVerifiesP},
     is_part_of : {IdentityRel, LeqRel},
     possible : {all_states, {0}},
     is_world : {{0}, {Top}, all_states},
     faulty : {{}}]

SeqsUpTo(S, n) == UNION {[1 .. k -> S] : k \in 0 .. n}

NoConstraint == [raised |-> FALSE, conj |-> <<>>]
NoModel ==
    [verifies |-> NoVerifiers, falsifies |-> NoVerifiers, is_part_of |-> {},
     possible |-> {}, is_world |-> {}, faulty |-> {}]
NoStructure == StructureOf(NoModel)
NoDifferences == calculate_default_differences(FALSE, NoStructure, NoStructure)
NoResult == [status |-> "running", models |-> <<>>, diagnostic |-> "", raised |-> FALSE]

\* The driver's variables while a single operation is exercised on its own.
DriverIdle ==
    /\ example = {}
    /\ max_iterations = 0
    /\ found_models = <<>>
    /\ solver_constraints = {}
    /\ escape_attempts = 0
    /\ candidate = NoModel
    /\ result = NoResult

\* No call made yet: neither a constraint nor None.
NotBuilt == [none |-> FALSE, conj |-> <<>>]
NoAttempts == [a \in {} |-> NotBuilt]

\* The structural-break builders' variables while they are not exercised.
BreakIdle ==
    /\ rediscovered_model = NoModel
    /\ guard_constraint = NotBuilt
    /\ stronger_constraints = NoAttempts

\* The operator evaluation's variables while it is not exercised.
NoExtension == [world_id \in {} |-> <<>>]
NotEvaluated == [raised |-> "", none |-> FALSE, extension |-> NoExtension]
TemporalIdle ==
    /\ world_time_intervals = NoExtension
    /\ leftarg_extension = NoExtension
    /\ rightarg_extension = NoExtension
    /\ new_truth_condition = NotEvaluated

InitBuild ==
    /\ pc = "build"
    /\ has_is_part_of \in BOOLEAN
    /\ previous_models \in SeqsUpTo(BuildModels, MaxPrev)
    /\ diff_constraint = NoConstraint
    /\ new_structure = NoStructure
    /\ previous_structure = NoStructure
    /\ differences = NoDifferences
    /\ DriverIdle
    /\ BreakIdle
    /\ TemporalIdle

BuildDifferenceConstraint ==
    /\ pc = "build"
    /\ diff_constraint' = create_difference_constraint(has_is_part_of, previous_models)
    /\ pc' = "built"
    /\ UNCHANGED <<temporalVars, breakVars, has_is_part_of, previous_models, calcVars, driverVars>>

NextBuild == BuildDifferenceConstraint

SpecBuild == InitBuild /\ [][NextBuild]_vars

\* --------------------------------------------- calculator specification
CalcModels ==
    [verifies : {NoVerifiers, TopVerifiesP, AllVerifyQ},
     falsifies : {NoVerifiers, ZeroVerifiesP},
     is_part_of : {IdentityRel, LeqRel},
     possible : {all_states, {0}, {Top}},
     is_world : {{0}, all_states},
     faulty : {{}, {"falsifies"}}]

InitCalc ==
    /\ pc = "calculate"
    /\ has_is_part_of \in BOOLEAN
    /\ new_structure \in {StructureOf(m) : m \in CalcModels}
    /\ previous_structure \in {StructureOf(m) : m \in CalcModels}
    /\ differences = NoDifferences
    /\ previous_models = <<>>
    /\ diff_constraint = NoConstraint
    /\ DriverIdle
    /\ BreakIdle
    /\ TemporalIdle

CalculateDifferences ==
    /\ pc = "calculate"
    /\ differences' =
           calculate_default_differences(has_is_part_of, new_structure, previous_structure)
    /\ pc' = "calculated"
    /\ UNCHANGED <<temporalVars, breakVars, has_is_part_of, new_structure, previous_structure, buildVars, driverVars>>

NextCalc == CalculateDifferences

SpecCalc == InitCalc /\ [][NextCalc]_vars

\* --------------------------------------------------- hook specification
HookModels ==
    [verifies : {NoVerifiers, TopVerifiesP},
     falsifies : {NoVerifiers},
     is_part_of : {IdentityRel, LeqRel},
     possible : {all_states, {0}},
     is_world : {{0}},
     faulty : {{}, {"falsifies"}}]

InitHook ==
    /\ pc = "compare"
    /\ has_is_part_of \in BOOLEAN
    /\ new_structure \in {StructureOf(m) : m \in HookModels}
                          \cup {HookedStructure(m, h) : m \in HookModels, h \in HookOutcomes}
    /\ previous_structure \in {StructureOf(m) : m \in HookModels}
    /\ differences = NoDifferences
    /\ previous_models = <<>>
    /\ diff_constraint = NoConstraint
    /\ DriverIdle
    /\ BreakIdle
    /\ TemporalIdle

CalculateDifferencesWithHook ==
    /\ pc = "compare"
    /\ differences' = calculate_differences(has_is_part_of, new_structure, previous_structure)
    /\ pc' = "compared"
    /\ UNCHANGED <<temporalVars, breakVars, has_is_part_of, new_structure, previous_structure, buildVars, driverVars>>

NextHook == CalculateDifferencesWithHook

SpecHook == InitHook /\ [][NextHook]_vars

\* ------------------------------------- structural-break specification
BreakModels ==
    [verifies : {NoVerifiers, TopVerifiesP, ZeroTopVerifyP, AllVerifyQ},
     falsifies : {NoVerifiers, ZeroVerifiesP},
     is_part_of : {IdentityRel, StatePairs},
     possible : {all_states},
     is_world : {{}, {0}, {0, Top}, all_states \ {0}, all_states},
     faulty : {{}, {"is_world"}, {"verifies"}, {"falsifies"}, AllFaulty}]

\* Valuations of the symbolic predicates against which a constraint is read.
BreakCandidates ==
    [verifies : {NoVerifiers, TopVerifiesP, ZeroTopVerifyP, AllVerifyP, AllVerifyQ},
     falsifies : {NoVerifiers, AllVerifyQ},
     is_part_of : {IdentityRel, StatePairs},
     possible : {all_states},
     is_world : {{}, {0}, {0, Top}, all_states \ {0}, all_states},
     faulty : {{}}]

InitBreak ==
    /\ pc = "break"
    /\ has_is_part_of \in BOOLEAN
    /\ rediscovered_model \in BreakModels
    /\ guard_constraint = NotBuilt
    /\ stronger_constraints = NoAttempts
    /\ previous_models = <<>>
    /\ diff_constraint = NoConstraint
    /\ new_structure = NoStructure
    /\ previous_structure = NoStructure
    /\ differences = NoDifferences
    /\ DriverIdle
    /\ TemporalIdle

BuildNonIsomorphicConstraint ==
    /\ pc = "break"
    /\ guard_constraint = NotBuilt
    /\ guard_constraint' = create_non_isomorphic_constraint(rediscovered_model)
    /\ UNCHANGED <<temporalVars, pc, has_is_part_of, buildVars, calcVars, driverVars,
                   rediscovered_model, stronger_constraints>>

\* escape_attempt is read from the iterator's escape_attempts attribute, which
\* the driver raises by one on every further rediscovery of the model.
BuildStrongerConstraint ==
    /\ pc = "break"
    /\ escape_attempts < MaxEscapeAttempts
    /\ escape_attempts' = escape_attempts + 1
    /\ stronger_constraints' =
          [a \in DOMAIN stronger_constraints \cup {escape_attempts'} |->
              IF a = escape_attempts'
              THEN create_stronger_constraint(has_is_part_of, rediscovered_model, a)
              ELSE stronger_constraints[a]]
    /\ UNCHANGED <<temporalVars, pc, has_is_part_of, buildVars, calcVars, example, max_iterations,
                   found_models, solver_constraints, candidate, result,
                   rediscovered_model, guard_constraint>>

NextBreak ==
    \/ BuildNonIsomorphicConstraint
    \/ BuildStrongerConstraint

SpecBreak == InitBreak /\ [][NextBreak]_vars

\* ------------------------------------------------- iteration driver
\* The base loop (BaseModelIterator.iterate) and the isomorphism oracle are
\* collaborators of this module; they follow sections 4.4 and 4.5 of the
\* specification document.

\* Consecutive isomorphic rediscoveries answered by the guard of section 4.3
\* before the escalated constraints of section 4.4 are requested.
EscalationThreshold == 1

Valuation(z3_model) == [z3_model EXCEPT !.faulty = {}]

\* One verifier and one falsifier per letter, one world; and its mirror image.
BalancedAtZero ==
    [verifies |-> [l \in Letters |-> IF l = "p" THEN {Top} ELSE {0}],
     falsifies |-> [l \in Letters |-> IF l = "p" THEN {0} ELSE {Top}],
     is_part_of |-> IdentityRel, possible |-> all_states, is_world |-> {0},
     faulty |-> {}]
BalancedAtTop ==
    [verifies |-> [l \in Letters |-> IF l = "p" THEN {0} ELSE {Top}],
     falsifies |-> [l \in Letters |-> IF l = "p" THEN {Top} ELSE {0}],
     is_part_of |-> IdentityRel, possible |-> all_states, is_world |-> {Top},
     faulty |-> {}]

\* Worlds 0 and Top, p verified at Top and falsified at 0; its image under the
\* exchange of 0 and Top; and the same valuation of p with every state but
\* Top a world.
ScenarioFirst ==
    [verifies |-> TopVerifiesP, falsifies |-> ZeroVerifiesP,
     is_part_of |-> IdentityRel, possible |-> all_states, is_world |-> {0, Top},
     faulty |-> {}]
ScenarioIsomorphic ==
    [verifies |-> ZeroVerifiesP, falsifies |-> TopVerifiesP,
     is_part_of |-> IdentityRel, possible |-> all_states, is_world |-> {0, Top},
     faulty |-> {}]
ScenarioThird ==
    [verifies |-> TopVerifiesP, falsifies |-> ZeroVerifiesP,
     is_part_of |-> IdentityRel, possible |-> all_states, is_world |-> all_states \ {Top},
     faulty |-> {}]
ScenarioExample == {ScenarioFirst, ScenarioIsomorphic, ScenarioThird}

DriverValuations ==
    [verifies : {NoVerifiers, AllVerifyQ},
     falsifies : {NoVerifiers},
     is_part_of : {IdentityRel},
     possible : {all_states},
     is_world : {{0}, {Top}, all_states},
     faulty : {{}}]
    \cup {BalancedAtZero, BalancedAtTop}
    \cup ScenarioExample

\* What the oracle can return: a valuation, as a model object on which every
\* evaluation succeeds or, for the valuations without verifiers and with state
\* 0 a world, as one on which every evaluation raises.
SolverModels ==
    DriverValuations
    \cup {[v EXCEPT !.faulty = AllFaulty] :
             v \in {w \in DriverValuations : w.verifies = NoVerifiers /\ 0 \in w.is_world}}

\* The valuations without verifiers: two classes up to isomorphism.
TwoClassExample == {v \in DriverValuations : v.verifies = NoVerifiers}

ExampleChoices ==
    {TwoClassExample,
     ScenarioExample,
     {v \in DriverValuations : v.verifies = AllVerifyQ},
     {v \in DriverValuations : Cardinality(v.is_world) = 1}}

\* solve(constraints): the models of the example that satisfy every added constraint
SolutionsAmong(models, ex, constraints) ==
    {m \in models :
        /\ Valuation(m) \in ex
        /\ \A conj \in constraints : Satisfies(m, conj)}

\* What the base predicates say of one state.
Signature(z3_model, s) ==
    <<EvalIsWorld(z3_model, s), EvalPossible(z3_model, s),
      [l \in Letters |-> EvalVerifies(z3_model, l, s)],
      [l \in Letters |-> EvalFalsifies(z3_model, l, s)],
      EvalIsPartOf(z3_model, s, s)>>

\* Every kind of state occurs equally often in both models.
SameSignatureCounts(a, b) ==
    \A s \in all_states :
        Cardinality({t \in all_states : Signature(a, t) = Signature(a, s)})
            = Cardinality({t \in all_states : Signature(b, t) = Signature(a, s)})

\* f relabels the states below s and respects every predicate on them: it
\* extends to a relabelling of all the states.
RECURSIVE ExtendsToIsomorphism(_, _, _, _)
ExtendsToIsomorphism(a, b, f, s) ==
    IF s > Top THEN TRUE
    ELSE \E t \in all_states :
            /\ \A r \in DOMAIN f : f[r] # t
            /\ Signature(a, s) = Signature(b, t)
            /\ \A r \in DOMAIN f :
                  /\ EvalIsPartOf(a, r, s) <=> EvalIsPartOf(b, f[r], t)
                  /\ EvalIsPartOf(a, s, r) <=> EvalIsPartOf(b, t, f[r])
            /\ ExtendsToIsomorphism(a, b, [r \in 0 .. s |-> IF r = s THEN t ELSE f[r]], s + 1)

\* Structural equivalence up to a relabelling of the states: some bijection
\* of the states carries every base predicate of a onto that of b.  The
\* oracle answers with a boolean, whichever relabelling it found.
Isomorphic(a, b) ==
    (SameSignatureCounts(a, b) /\ ExtendsToIsomorphism(a, b, [r \in {} |-> 0], 0)) = TRUE

Last(models) == models[Len(models)]

\* The structural-break constraint for the attempt-th consecutive rediscovery.
StructuralBreak(sem_has_part, z3_model, attempt) ==
    IF attempt <= EscalationThreshold
    THEN create_non_isomorphic_constraint(z3_model)
    ELSE create_stronger_constraint(sem_has_part, z3_model, attempt - EscalationThreshold)

\* the error re-raised to the host instead of being returned
UnsatResultRaises(models) ==
    [status |-> "unsat", models |-> models, diagnostic |-> "no more models", raised |-> TRUE]

UnsatResult(models) ==
    [status |-> "unsat", models |-> models, diagnostic |-> "", raised |-> FALSE]

\* the solver's exception propagated and the models found so far dropped
ErrorResultRaises(models) ==
    [status |-> "error", models |-> <<>>, diagnostic |-> "solver error", raised |-> TRUE]

ErrorResult(models) ==
    [status |-> "error", models |-> models, diagnostic |-> "solver error", raised |-> FALSE]

CompleteResult(models) ==
    [status |-> "complete", models |-> models, diagnostic |-> "", raised |-> FALSE]
StoppedResult(models) ==
    [status |-> "escape_limit", models |-> models,
     diagnostic |-> "escape attempts exhausted", raised |-> FALSE]
ConfigFaultResult(models) ==
    [status |-> "config_fault", models |-> models,
     diagnostic |-> "Could not create any difference constraints", raised |-> TRUE]

InitAmong(models) ==
    /\ pc = "READY"
    /\ has_is_part_of = TRUE
    /\ example \in ExampleChoices
    /\ max_iterations \in 1 .. MaxIterations
    /\ \E m \in models :
          /\ Valuation(m) \in example
          /\ found_models = <<m>>
    /\ solver_constraints = {}
    /\ escape_attempts = 0
    /\ candidate = NoModel
    /\ result = NoResult
    /\ previous_models = <<>>
    /\ diff_constraint = NoConstraint
    /\ new_structure = NoStructure
    /\ previous_structure = NoStructure
    /\ differences = NoDifferences
    /\ BreakIdle
    /\ TemporalIdle

Start ==
    /\ pc = "READY"
    /\ pc' = "SOLVING"
    /\ UNCHANGED <<temporalVars, breakVars, has_is_part_of, buildVars, calcVars, driverVars>>

\* the requested count not checked before the solver call
CanSolveUnbounded ==
    /\ pc = "SOLVING"
    /\ escape_attempts < MaxEscapeAttempts

\* The bounds are checked between steps, before the next solver call.
CanSolve ==
    /\ pc = "SOLVING"
    /\ Len(found_models) < max_iterations
    /\ escape_attempts < MaxEscapeAttempts

Complete ==
    /\ pc = "SOLVING"
    /\ Len(found_models) >= max_iterations
    /\ pc' = "DONE"
    /\ result' = CompleteResult(found_models)
    /\ UNCHANGED <<temporalVars, breakVars, has_is_part_of, buildVars, calcVars, example, max_iterations,
                   found_models, solver_constraints, escape_attempts, candidate>>

StopEscalation ==
    /\ pc = "SOLVING"
    /\ Len(found_models) < max_iterations
    /\ escape_attempts >= MaxEscapeAttempts
    /\ pc' = "STOPPED"
    /\ result' = StoppedResult(found_models)
    /\ UNCHANGED <<temporalVars, breakVars, has_is_part_of, buildVars, calcVars, example, max_iterations,
                   found_models, solver_constraints, escape_attempts, candidate>>

SolveSatAmong(models) ==
    /\ CanSolve
    /\ \E m \in SolutionsAmong(models, example, solver_constraints) : candidate' = m
    /\ pc' = "MODEL_FOUND"
    /\ UNCHANGED <<temporalVars, breakVars, has_is_part_of, buildVars, calcVars, example, max_iterations,
                   found_models, solver_constraints, escape_attempts, result>>

SolveUnsatAmong(models) ==
    /\ CanSolve
    /\ SolutionsAmong(models, example, solver_constraints) = {}
    /\ pc' = "UNSAT"
    /\ result' = UnsatResult(found_models)
    /\ UNCHANGED <<temporalVars, breakVars, has_is_part_of, buildVars, calcVars, example, max_iterations,
                   found_models, solver_constraints, escape_attempts, candidate>>

SolveError ==
    /\ CanSolve
    /\ pc' = "ERROR"
    /\ result' = ErrorResult(found_models)
    /\ UNCHANGED <<temporalVars, breakVars, has_is_part_of, buildVars, calcVars, example, max_iterations,
                   found_models, solver_constraints, escape_attempts, candidate>>

\* the rediscovery neither counted nor constrained
RejectIsomorphicUncounted ==
    /\ pc = "MODEL_FOUND"
    /\ Isomorphic(candidate, Last(found_models))
    /\ pc' = "SOLVING"
    /\ candidate' = NoModel
    /\ UNCHANGED <<temporalVars, breakVars, has_is_part_of, buildVars, calcVars, example, max_iterations,
                   found_models, solver_constraints, escape_attempts, result>>

RejectIsomorphic ==
    /\ pc = "MODEL_FOUND"
    /\ Isomorphic(candidate, Last(found_models))
    /\ LET break == StructuralBreak(has_is_part_of, candidate, escape_attempts + 1)
       IN  solver_constraints' =
               IF break.none THEN solver_constraints
               ELSE solver_constraints \cup {break.conj}
    /\ escape_attempts' = escape_attempts + 1
    /\ pc' = "SOLVING"
    /\ candidate' = NoModel
    /\ UNCHANGED <<temporalVars, breakVars, has_is_part_of, buildVars, calcVars, example, max_iterations,
                   found_models, result>>

Accept ==
    /\ pc = "MODEL_FOUND"
    /\ ~Isomorphic(candidate, Last(found_models))
    /\ found_models' = Append(found_models, candidate)
    /\ differences' = calculate_default_differences(
                          has_is_part_of, StructureOf(candidate),
                          StructureOf(Last(found_models)))
    /\ LET must_differ == create_difference_constraint(has_is_part_of, found_models')
       IN  IF must_differ.raised
           THEN /\ pc' = "RAISED"
                /\ result' = ConfigFaultResult(found_models')
                /\ UNCHANGED <<solver_constraints, escape_attempts>>
           ELSE /\ pc' = "SOLVING"
                /\ solver_constraints' = solver_constraints \cup {must_differ.conj}
                /\ escape_attempts' = 0
                /\ UNCHANGED result
    /\ candidate' = NoModel
    /\ UNCHANGED <<temporalVars, breakVars, has_is_part_of, buildVars, new_structure, previous_structure,
                   example, max_iterations>>

\* The session with an oracle whose models may raise on evaluation.
Solutions(ex, constraints) == SolutionsAmong(SolverModels, ex, constraints)
Init == InitAmong(SolverModels)
SolveSat == SolveSatAmong(SolverModels)
SolveUnsat == SolveUnsatAmong(SolverModels)

Next ==
    \/ Start
    \/ Complete
    \/ StopEscalation
    \/ SolveSat
    \/ SolveUnsat
    \/ SolveError
    \/ RejectIsomorphic
    \/ Accept

Spec == Init /\ [][Next]_vars

\* The session with an exhaustive oracle: it always answers, with a model or
\* with UNSAT, and the driver, which alone runs, always takes its next step.
NextExhaustive ==
    \/ Start
    \/ Complete
    \/ StopEscalation
    \/ SolveSat
    \/ SolveUnsat
    \/ RejectIsomorphic
    \/ Accept

\* The example in which a model object that cannot be evaluated keeps being
\* rediscovered.
InitExhaustive == Init /\ example = TwoClassExample

SpecExhaustive ==
    InitExhaustive /\ [][NextExhaustive]_vars /\ WF_vars(NextExhaustive)

\* ------------------------------------------ bimodal operators (operators.py)
\* What evaluating a sentence's truth condition gives: a dictionary from
\* world ids to (true_times, false_times), None, or an exception.
DictValue(extension) == [raised |-> "", none |-> FALSE, extension |-> extension]
RaisedValue(exception) == [raised |-> exception, none |-> FALSE, extension |-> NoExtension]

\* t in times, for a list of times
InTimes(t, times) == \E i \in 1 .. Len(times) : times[i] = t

\* list(range(start_time, end_time + 1))
TimeInterval(start_time, end_time) ==
    [i \in 1 .. (IF end_time >= start_time THEN end_time - start_time + 1 ELSE 0) |->
        start_time + i - 1]

\* sorted(set(...))
RECURSIVE SortedTimes(_)
SortedTimes(times) ==
    IF times = {} THEN <<>>
    ELSE LET first == CHOOSE t \in times : \A u \in times : t <= u
         IN  <<first>> \o SortedTimes(times \ {first})

\* NegationOperator.find_truth_condition: the two lists swapped
Negation_find_truth_condition(argument) ==
    IF argument.raised # "" THEN argument
    ELSE IF argument.none THEN RaisedValue("AttributeError")
    ELSE DictValue([world_id \in DOMAIN argument.extension |->
                       <<argument.extension[world_id][2], argument.extension[world_id][1]>>])

\* AndOperator.find_truth_condition: true times of the left that are true
\* times of the right, in the left's order; the sorted union of the false times
And_find_truth_condition(leftarg, rightarg) ==
    IF leftarg.raised # "" THEN leftarg
    ELSE IF rightarg.raised # "" THEN rightarg
    ELSE IF leftarg.none THEN RaisedValue("AttributeError")
    ELSE IF leftarg.extension = NoExtension THEN DictValue(NoExtension)
    ELSE IF rightarg.none THEN RaisedValue("TypeError")
    ELSE IF ~(DOMAIN leftarg.extension \subseteq DOMAIN rightarg.extension)
         THEN RaisedValue("KeyError")
    ELSE DictValue([world_id \in DOMAIN leftarg.extension |->
            LET left_true_times == leftarg.extension[world_id][1]
                left_false_times == leftarg.extension[world_id][2]
                right_true_times == rightarg.extension[world_id][1]
                right_false_times == rightarg.extension[world_id][2]
                IsRightTrue(t) == InTimes(t, right_true_times)
            IN  <<SelectSeq(left_true_times, IsRightTrue),
                  SortedTimes({left_false_times[i] : i \in 1 .. Len(left_false_times)}
                              \cup {right_false_times[i] : i \in 1 .. Len(right_false_times)})>>])

\* The exception the loop over the left argument's worlds runs into, "" if none.
TemporalLoopRaises(leftarg, rightarg, intervals) ==
    IF leftarg.none THEN "AttributeError"
    ELSE IF leftarg.extension = NoExtension THEN ""
    ELSE IF rightarg.none THEN "TypeError"
    ELSE IF \E world_id \in DOMAIN leftarg.extension :
               world_id \notin DOMAIN rightarg.extension \/ world_id \notin DOMAIN intervals
         THEN "KeyError"
    ELSE ""

\* the left argument not required at t itself
UntilSatisfiedAfterNow(t, end_time, left_true_times, right_true_times) ==
    \E t_prime \in (t + 1) .. end_time :
        /\ InTimes(t_prime, right_true_times)
        /\ \A t_mid \in (t + 1) .. (t_prime - 1) : InTimes(t_mid, left_true_times)

\* The inner loops of UntilOperator.find_truth_condition for one time t
UntilSatisfied(t, end_time, left_true_times, right_true_times) ==
    \E t_prime \in (t + 1) .. end_time :
        /\ InTimes(t_prime, right_true_times)
        /\ \A t_mid \in t .. (t_prime - 1) : InTimes(t_mid, left_true_times)

\* new_truth_condition as UntilOperator.find_truth_condition fills it
UntilTruthCondition(leftarg, rightarg, intervals) ==
    [world_id \in DOMAIN leftarg.extension |->
        LET start_time == intervals[world_id][1]
            end_time == intervals[world_id][2]
            Satisfied(t) == UntilSatisfied(t, end_time, leftarg.extension[world_id][1],
                                           rightarg.extension[world_id][1])
            NotSatisfied(t) == ~Satisfied(t)
        IN  <<SelectSeq(TimeInterval(start_time, end_time), Satisfied),
              SelectSeq(TimeInterval(start_time, end_time), NotSatisfied)>>]

Until_find_truth_condition(leftarg, rightarg, intervals) ==
    IF leftarg.raised # "" THEN leftarg
    ELSE IF rightarg.raised # "" THEN rightarg
    ELSE IF TemporalLoopRaises(leftarg, rightarg, intervals) # ""
         THEN RaisedValue(TemporalLoopRaises(leftarg, rightarg, intervals))
    ELSE DictValue(UntilTruthCondition(leftarg, rightarg, intervals))

\* The inner loops of SinceOperator.find_truth_condition for one time t
SinceSatisfied(t, start_time, left_true_times, right_true_times) ==
    \E t_prime \in start_time .. (t - 1) :
        /\ InTimes(t_prime, right_true_times)
        /\ \A t_mid \in (t_prime + 1) .. t : InTimes(t_mid, left_true_times)

\* new_truth_condition as SinceOperator.find_truth_condition fills it
SinceTruthCondition(leftarg, rightarg, intervals) ==
    [world_id \in DOMAIN leftarg.extension |->
        LET start_time == intervals[world_id][1]
            end_time == intervals[world_id][2]
            Satisfied(t) == SinceSatisfied(t, start_time, leftarg.extension[world_id][1],
                                           rightarg.extension[world_id][1])
            NotSatisfied(t) == ~Satisfied(t)
        IN  <<SelectSeq(TimeInterval(start_time, end_time), Satisfied),
              SelectSeq(TimeInterval(start_time, end_time), NotSatisfied)>>]

\* The function ends after its loop without a return statement: None.
Since_find_truth_condition(leftarg, rightarg, intervals) ==
    IF leftarg.raised # "" THEN leftarg
    ELSE IF rightarg.raised # "" THEN rightarg
    ELSE IF TemporalLoopRaises(leftarg, rightarg, intervals) # ""
         THEN RaisedValue(TemporalLoopRaises(leftarg, rightarg, intervals))
    ELSE [raised |-> "", none |-> TRUE, extension |-> NoExtension]

\* PreProgOperator.derived_definition: And(Until(Not A, A), A)
PreProg_truth_condition(argument, intervals) ==
    And_find_truth_condition(
        Until_find_truth_condition(Negation_find_truth_condition(argument), argument, intervals),
        argument)

\* PastProgOperator.derived_definition: And(Since(Not A, A), A)
PastProg_truth_condition(argument, intervals) ==
    And_find_truth_condition(
        Since_find_truth_condition(Negation_find_truth_condition(argument), argument, intervals),
        argument)

\* ----------------------------------------------- operator specification
Times == 0 .. MaxTime

\* The extension of a sentence in one world: the times of the world's interval
\* at which it is true and, disjoint from them, the times at which it is false.
Profile(interval, true_set) ==
    LET IsTrue(t) == t \in true_set
        IsFalse(t) == t \notin true_set
    IN  <<SelectSeq(TimeInterval(interval[1], interval[2]), IsTrue),
          SelectSeq(TimeInterval(interval[1], interval[2]), IsFalse)>>


\* Beside world 0 there is no second world, one known to both arguments and
\* the semantics (interval 0..1), one the right argument has no entry for, or
\* one without a time interval.
InitTemporal ==
    /\ pc = "operands"
    /\ has_is_part_of = FALSE
    /\ \E start_time \in Times, end_time \in Times,
             second \in {"none", "known", "no_rightarg", "no_interval"} :
          /\ start_time <= end_time
          /\ \E left_true \in SUBSET (start_time .. end_time),
                right_true \in SUBSET (start_time .. end_time) :
                /\ world_time_intervals =
                      [world_id \in (IF second \in {"known", "no_rightarg"} THEN {0, 1} ELSE {0}) |->
                          IF world_id = 0 THEN <<start_time, end_time>> ELSE <<0, 1>>]
                /\ leftarg_extension =
                      [world_id \in (IF second = "none" THEN {0} ELSE {0, 1}) |->
                          IF world_id = 0 THEN Profile(<<start_time, end_time>>, left_true)
                          ELSE Profile(<<0, 1>>, {0})]
                /\ rightarg_extension =
                      [world_id \in (IF second \in {"known", "no_interval"} THEN {0, 1} ELSE {0}) |->
                          IF world_id = 0 THEN Profile(<<start_time, end_time>>, right_true)
                          ELSE Profile(<<0, 1>>, {1})]
    /\ new_truth_condition = NotEvaluated
    /\ previous_models = <<>>
    /\ diff_constraint = NoConstraint
    /\ new_structure = NoStructure
    /\ previous_structure = NoStructure
    /\ differences = NoDifferences
    /\ DriverIdle
    /\ BreakIdle

EvaluateUntil ==
    /\ pc = "operands"
    /\ new_truth_condition' =
          Until_find_truth_condition(DictValue(leftarg_extension), DictValue(rightarg_extension),
                                     world_time_intervals)
    /\ pc' = "until"
    /\ UNCHANGED <<has_is_part_of, buildVars, calcVars, driverVars, breakVars,
                   world_time_intervals, leftarg_extension, rightarg_extension>>

EvaluateSince ==
    /\ pc = "operands"
    /\ new_truth_condition' =
          Since_find_truth_condition(DictValue(leftarg_extension), DictValue(rightarg_extension),
                                     world_time_intervals)
    /\ pc' = "since"
    /\ UNCHANGED <<has_is_part_of, buildVars, calcVars, driverVars, breakVars,
                   world_time_intervals, leftarg_extension, rightarg_extension>>

EvaluatePreProg ==
    /\ pc = "operands"
    /\ new_truth_condition' =
          PreProg_truth_condition(DictValue(leftarg_extension), world_time_intervals)
    /\ pc' = "preprog"
    /\ UNCHANGED <<has_is_part_of, buildVars, calcVars, driverVars, breakVars,
                   world_time_intervals, leftarg_extension, rightarg_extension>>

EvaluatePastProg ==
    /\ pc = "operands"
    /\ new_truth_condition' =
          PastProg_truth_condition(DictValue(leftarg_extension), world_time_intervals)
    /\ pc' = "pastprog"
    /\ UNCHANGED <<has_is_part_of, buildVars, calcVars, driverVars, breakVars,
                   world_time_intervals, leftarg_extension, rightarg_extension>>

NextTemporal ==
    \/ EvaluateUntil
    \/ EvaluateSince
    \/ EvaluatePreProg
    \/ EvaluatePastProg

SpecTemporal == InitTemporal /\ [][NextTemporal]_vars


\* ------------------------------------------------------------- claims
\* The candidate and the model disagree on the value of at least one
\* verifies, falsifies, is_part_of, possible or is_world instance.
Differs(cand, z3_model) ==
    \/ \E l \in Letters, s \in all_states :
          EvalVerifies(cand, l, s) # EvalVerifies(z3_model, l, s)
    \/ \E l \in Letters, s \in all_states :
          EvalFalsifies(cand, l, s) # EvalFalsifies(z3_model, l, s)
    \/ \E s1 \in all_states, s2 \in all_states :
          EvalIsPartOf(cand, s1, s2) # EvalIsPartOf(z3_model, s1, s2)
    \/ \E s \in all_states : EvalPossible(cand, s) # EvalPossible(z3_model, s)
    \/ \E s \in all_states : EvalIsWorld(cand, s) # EvalIsWorld(z3_model, s)

\* Some predicate of the semantics can be evaluated on the model.
SomeEvaluation(sem_has_part, z3_model) ==
    \E kind \in Kinds :
        /\ ~EvalRaises(z3_model, kind)
        /\ (kind = "is_part_of" => sem_has_part)

\* C1 as stated: every candidate that satisfies the returned constraint
\* differs from EVERY supplied previous model in at least one base predicate.
C1_MustDifferFromEvery ==
    (pc = "built" /\ ~diff_constraint.raised) =>
        \A cand \in Candidates :
            Satisfies(cand, diff_constraint.conj) =>
                \A i \in 1 .. Len(previous_models) : Differs(cand, previous_models[i])

\* C1 amended: every candidate that satisfies the returned constraint differs,
\* in at least one base predicate, from every supplied previous model on which
\* at least one predicate evaluation succeeded (a model whose evaluations all
\* fault contributes no disjunction and is not excluded).
C1_MustDifferFromEvaluable ==
    (pc = "built" /\ ~diff_constraint.raised) =>
        \A cand \in Candidates :
            Satisfies(cand, diff_constraint.conj) =>
                \A i \in 1 .. Len(previous_models) :
                    SomeEvaluation(has_is_part_of, previous_models[i]) =>
                        Differs(cand, previous_models[i])

C1_Witness ==
    /\ pc = "built"
    /\ ~diff_constraint.raised
    /\ Len(previous_models) = 2
    /\ previous_models[1] # previous_models[2]
    /\ \A i \in 1 .. 2 : SomeEvaluation(has_is_part_of, previous_models[i])
    /\ \E cand \in Candidates : Satisfies(cand, diff_constraint.conj)
    /\ \E cand \in Candidates :
          /\ Differs(cand, previous_models[1])
          /\ ~Satisfies(cand, diff_constraint.conj)

\* C2: the builder raises exactly when no difference term can be built for
\* any previous model (empty batch, or every evaluation faulting); a returned
\* constraint is a non-empty conjunction of non-empty disjunctions that no
\* candidate agreeing with all previous models satisfies.
C2_NonVacuity ==
    pc = "built" =>
        /\ diff_constraint.raised <=>
              \A i \in 1 .. Len(previous_models) :
                  ~SomeEvaluation(has_is_part_of, previous_models[i])
        /\ ~diff_constraint.raised =>
              /\ diff_constraint.conj # <<>>
              /\ \A j \in 1 .. Len(diff_constraint.conj) : diff_constraint.conj[j] # {}
              /\ \A cand \in Candidates :
                    (\A i \in 1 .. Len(previous_models) : ~Differs(cand, previous_models[i]))
                        => ~Satisfies(cand, diff_constraint.conj)

C2_Witness ==
    /\ pc = "built"
    /\ diff_constraint.raised
    /\ Len(previous_models) = 2

\* C4: the added worlds (possible states) of calculate(A,B) are the removed
\* worlds (possible states) of calculate(B,A).
C4_Symmetry ==
    pc = "calculated" =>
        LET swapped == calculate_default_differences(
                           has_is_part_of, previous_structure, new_structure)
        IN  /\ differences.worlds.added = swapped.worlds.removed
            /\ differences.worlds.removed = swapped.worlds.added
            /\ differences.possible_states.added = swapped.possible_states.removed
            /\ differences.possible_states.removed = swapped.possible_states.added

C4_Witness ==
    /\ pc = "calculated"
    /\ differences.worlds.added # {}
    /\ differences.possible_states.removed # {}

\* C5: calculate(A,A) has empty added and removed worlds and possible states,
\* an empty sentence_letters map and an empty parthood map.
C5_NoOp ==
    (pc = "calculated" /\ new_structure = previous_structure) =>
        /\ differences.worlds.added = {}
        /\ differences.worlds.removed = {}
        /\ differences.possible_states.added = {}
        /\ differences.possible_states.removed = {}
        /\ DOMAIN differences.sentence_letters = {}
        /\ DOMAIN differences.parthood = {}

C5_Witness ==
    /\ pc = "calculated"
    /\ new_structure = previous_structure
    /\ has_is_part_of
    /\ new_structure.z3_world_states # {}
    /\ new_structure.z3_model.verifies["p"] # {}
    /\ new_structure.z3_model.faulty # {}

\* C6: a sentence letter is a key of sentence_letters exactly when one of its
\* added/removed verifier or falsifier lists is non-empty.
C6_Sparsity ==
    pc = "calculated" =>
        \A l \in Letters :
            IF l \in DOMAIN differences.sentence_letters
            THEN LET entry == differences.sentence_letters[l]
                 IN  \/ entry.verifiers.added # {}
                     \/ entry.verifiers.removed # {}
                     \/ entry.falsifiers.added # {}
                     \/ entry.falsifiers.removed # {}
            ELSE /\ added_verifiers(new_structure, previous_structure, l) = {}
                 /\ removed_verifiers(new_structure, previous_structure, l) = {}
                 /\ added_falsifiers(new_structure, previous_structure, l) = {}
                 /\ removed_falsifiers(new_structure, previous_structure, l) = {}

C6_Witness ==
    /\ pc = "calculated"
    /\ "p" \in DOMAIN differences.sentence_letters
    /\ "q" \notin DOMAIN differences.sentence_letters
    /\ new_structure.z3_model.verifies["q"] # {}

\* C3: no two models of the accepted list are isomorphic to each other.
C3_PairwiseNonIsomorphic ==
    \A i \in 1 .. Len(found_models), j \in 1 .. Len(found_models) :
        i < j => ~Isomorphic(found_models[i], found_models[j])

BreakTerms(sem_has_part, z3_model, attempt) ==
    IF attempt <= EscalationThreshold
    THEN GuardWorldTerms(z3_model) \cup GuardLetterTerms(z3_model, 1)
    ELSE StrongerWorldTerms(z3_model, attempt - EscalationThreshold)
         \cup StrongerLetterTerms
         \cup StrongerParthoodTerms(sem_has_part, z3_model)

IsomorphicRediscovery ==
    pc = "MODEL_FOUND" /\ Isomorphic(candidate, Last(found_models))

\* C8 as stated: on an isomorphic rediscovery the accepted list is unchanged,
\* a structural-break constraint built from the model is added, the counter
\* goes up by one and the driver is SOLVING again.
C8_BreakAlwaysAdded ==
    [][IsomorphicRediscovery =>
         LET terms == BreakTerms(has_is_part_of, candidate, escape_attempts + 1)
         IN  /\ found_models' = found_models
             /\ result' = result
             /\ terms # {}
             /\ solver_constraints' = solver_constraints \cup {<<terms>>}
             /\ escape_attempts' = escape_attempts + 1
             /\ pc' = "SOLVING"]_vars

\* C8 amended: on an isomorphic rediscovery the accepted list is unchanged,
\* the counter goes up by one, the driver is SOLVING again, and the
\* structural-break constraint built from the model is added whenever the
\* builder returns one; when it returns none the constraints are unchanged.
C8_BreakAddedWhenBuilt ==
    [][IsomorphicRediscovery =>
         LET terms == BreakTerms(has_is_part_of, candidate, escape_attempts + 1)
         IN  /\ found_models' = found_models
             /\ result' = result
             /\ solver_constraints' =
                   IF terms # {} THEN solver_constraints \cup {<<terms>>}
                   ELSE solver_constraints
             /\ escape_attempts' = escape_attempts + 1
             /\ pc' = "SOLVING"]_vars

C8_Witness ==
    /\ pc = "SOLVING"
    /\ escape_attempts = 2
    /\ Len(found_models) = 2
    /\ \E conj \in solver_constraints :
          \E term \in conj[1] : term.kind = "world_count" /\ term.rel # "<" /\ term.rel # ">"

NonIsomorphicModelFound ==
    pc = "MODEL_FOUND" /\ ~Isomorphic(candidate, Last(found_models))

\* C9 as stated: accepting appends the model, resets the counter and adds a
\* must-differ constraint covering all accepted models, so that no later raw
\* solve agrees with an accepted model on every base predicate (an acceptance
\* on which the builder raises ends the iteration and is left aside).
C9_NoAcceptedModelAgain ==
    [][/\ NonIsomorphicModelFound =>
            /\ found_models' = Append(found_models, candidate)
            /\ pc' # "RAISED" =>
                  /\ escape_attempts' = 0
                  /\ \A m \in Solutions(example, solver_constraints') :
                        \A i \in 1 .. Len(found_models') : Differs(m, found_models'[i])
       /\ (pc' = "MODEL_FOUND" /\ Len(found_models') >= 2) =>
            \A i \in 1 .. Len(found_models') : Differs(candidate', found_models'[i])]_vars

\* C9 amended: accepting appends the model and, unless no accepted model can be
\* evaluated at all (the builder then raises and the iteration ends), resets
\* the counter and adds a must-differ constraint covering every accepted model
\* on which some evaluation succeeds; no later raw solve agrees with such an
\* accepted model on every base predicate.
C9_NoEvaluableAcceptedModelAgain ==
    [][/\ NonIsomorphicModelFound =>
            /\ found_models' = Append(found_models, candidate)
            /\ pc' = "RAISED" <=>
                  \A i \in 1 .. Len(found_models') :
                      ~SomeEvaluation(has_is_part_of, found_models'[i])
            /\ pc' # "RAISED" => (pc' = "SOLVING" /\ escape_attempts' = 0)
            /\ pc' # "RAISED" =>
                  \A m \in Solutions(example, solver_constraints') :
                      \A i \in 1 .. Len(found_models') :
                          SomeEvaluation(has_is_part_of, found_models'[i]) =>
                              Differs(m, found_models'[i])
       /\ (pc' = "MODEL_FOUND" /\ Len(found_models') >= 2) =>
            \A i \in 1 .. Len(found_models') :
                SomeEvaluation(has_is_part_of, found_models'[i]) =>
                    Differs(candidate', found_models'[i])]_vars

C9_Witness ==
    /\ pc = "MODEL_FOUND"
    /\ Len(found_models) = 2
    /\ escape_attempts = 0
    /\ \A i \in 1 .. 2 : SomeEvaluation(has_is_part_of, found_models[i])
    /\ Cardinality(solver_constraints) >= 2

\* C10: a solver error ends the iteration; the result holds exactly the models
\* accepted before the error and a diagnostic, and no exception escapes.
C10_SolverErrorGraceful ==
    pc = "ERROR" =>
        /\ result.status = "error"
        /\ result.models = found_models
        /\ result.diagnostic # ""
        /\ ~result.raised
        /\ ~ENABLED Next

C10_Witness ==
    /\ pc = "ERROR"
    /\ Len(result.models) = 2
    /\ solver_constraints # {}

\* C11: with an exhaustive oracle, an isomorphic rediscovery is always followed
\* by a raw solve whose model is not isomorphic to the latest accepted one and
\* is accepted, by UNSAT, or by the stop on the escape-attempt bound; the
\* driver does not rediscover forever.
C11_EventualEscape ==
    IsomorphicRediscovery
        ~> (NonIsomorphicModelFound \/ pc = "UNSAT" \/ pc = "STOPPED")

\* a model accepted after the escalated constraint was added
C11_Witness ==
    /\ pc = "SOLVING"
    /\ Len(found_models) = 2
    /\ escape_attempts = 0
    /\ \E conj \in solver_constraints :
          \E term \in conj[1] : term.kind = "all_verify"

\* The alternatives of a returned constraint; none when None was returned.
TermsOf(built) == IF built.none \/ built.conj = <<>> THEN {} ELSE built.conj[1]
WorldCountTerms(terms) == {term \in terms : term.kind = "world_count"}

\* C12 as stated: for the same model, the alternatives of attempt 2 or later
\* are a strict superset of the alternatives of attempt 1.
C12_LaterAttemptsSuperset ==
    \A a \in DOMAIN stronger_constraints :
        (1 \in DOMAIN stronger_constraints /\ a >= 2) =>
            /\ TermsOf(stronger_constraints[1]) \subseteq TermsOf(stronger_constraints[a])
            /\ TermsOf(stronger_constraints[1]) # TermsOf(stronger_constraints[a])

\* C12 amended: for the same model, the alternatives of attempt 2 or later are
\* those of attempt 1 with its single one-sided world-count bound replaced by
\* the two alternatives "exactly 1 world" and "exactly all states are worlds";
\* the bound of attempt 1 is not among the later alternatives, every other
\* alternative is common to both, and when the world count cannot be
\* evaluated the two sets are equal.
C12_WorldBoundReplaced ==
    \A a \in DOMAIN stronger_constraints :
        (1 \in DOMAIN stronger_constraints /\ a >= 2) =>
            LET first == TermsOf(stronger_constraints[1])
                later == TermsOf(stronger_constraints[a])
            IN  /\ first \ WorldCountTerms(first) = later \ WorldCountTerms(later)
                /\ IF EvalRaises(rediscovered_model, "is_world")
                   THEN first = later /\ WorldCountTerms(first) = {}
                   ELSE /\ Cardinality(WorldCountTerms(first)) = 1
                        /\ \A term \in WorldCountTerms(first) : term.rel \in {"<=", ">="}
                        /\ WorldCountTerms(first) \cap later = {}
                        /\ WorldCountTerms(later) =
                              {CountTerm("world_count", NoLetter, "==", 1),
                               CountTerm("world_count", NoLetter, "==", Cardinality(all_states))}

C12_Witness ==
    /\ DOMAIN stronger_constraints = {1, 2}
    /\ rediscovered_model.faulty = {}
    /\ rediscovered_model.is_world = all_states
    /\ Cardinality(TermsOf(stronger_constraints[2]))
          = Cardinality(TermsOf(stronger_constraints[1])) + 1

\* C13: the accepted list never holds more models than max_iterations, the
\* initial model included; a model is only under examination, hence a solver
\* call only made, while the list is below the bound; and the returned list
\* is within the bound.
C13_AtMostMaxIterations ==
    /\ Len(found_models) <= max_iterations
    /\ pc = "MODEL_FOUND" => Len(found_models) < max_iterations
    /\ result # NoResult => Len(result.models) <= max_iterations

\* stopped by the bound while the oracle still has models to give
C13_Witness ==
    /\ pc = "DONE"
    /\ max_iterations = MaxIterations
    /\ Len(result.models) = max_iterations
    /\ Solutions(example, solver_constraints) # {}

\* The session of the scenario: the example's models are the three scenario
\* valuations, the first of them is the initial model, 2 models are requested.
InScenario ==
    /\ example = ScenarioExample
    /\ max_iterations = 2
    /\ found_models[1] = ScenarioFirst

\* C14: in the scenario, a 2nd raw solve isomorphic to model 1 is rejected (the
\* list is unchanged, a structural-break constraint is added, the driver
\* solves again); a following raw solve with every state but the last a world
\* is accepted as the 2nd model, and the Difference Record between the two
\* accepted models has worlds.added = the states strictly between 0 and Top
\* ({1,2} for N = 2) and no sentence-letter entry.
C14_Scenario ==
    [][/\ (InScenario /\ pc = "MODEL_FOUND" /\ Len(found_models) = 1
            /\ candidate = ScenarioIsomorphic) =>
              /\ found_models' = found_models
              /\ solver_constraints' # solver_constraints
              /\ \A conj \in solver_constraints' \ solver_constraints :
                    conj = <<BreakTerms(has_is_part_of, candidate, escape_attempts + 1)>>
              /\ ~Satisfies(candidate, <<BreakTerms(has_is_part_of, candidate, escape_attempts + 1)>>)
              /\ escape_attempts' = escape_attempts + 1
              /\ pc' = "SOLVING"
       /\ (InScenario /\ pc = "MODEL_FOUND" /\ Len(found_models) = 1
            /\ candidate = ScenarioThird) =>
              /\ found_models' = <<ScenarioFirst, ScenarioThird>>
              /\ pc' = "SOLVING"
              /\ differences'.worlds.added = 1 .. (Top - 1)
              /\ DOMAIN differences'.sentence_letters = {}]_vars

\* the scenario run to its end: the 2nd raw solve rejected, the 3rd accepted
C14_Witness ==
    /\ InScenario
    /\ pc = "DONE"
    /\ result.models = <<ScenarioFirst, ScenarioThird>>
    /\ \E conj \in solver_constraints :
          \E term \in conj[1] : term.kind = "world_count" /\ term.rel = ">"
    /\ differences.worlds.added = 1 .. (Top - 1)
    /\ DOMAIN differences.sentence_letters = {}

GuardBuilt == guard_constraint # NotBuilt

\* C15 as stated: for each letter, and independently for its verifier count c
\* and its falsifier count c in the given model, the guard offers both "count
\* < c-1" and "count > c+1": a candidate whose count for some letter lies
\* outside the band satisfies the returned constraint.
C15_BothBandSidesOffered ==
    (GuardBuilt /\ rediscovered_model.faulty = {}) =>
        \A l \in Letters, cand \in BreakCandidates :
            (\/ VerCount(cand, l) < CurrentVer(rediscovered_model, l) - 1
             \/ VerCount(cand, l) > CurrentVer(rediscovered_model, l) + 1
             \/ FalsCount(cand, l) < CurrentFals(rediscovered_model, l) - 1
             \/ FalsCount(cand, l) > CurrentFals(rediscovered_model, l) + 1)
                => (~guard_constraint.none /\ Satisfies(cand, guard_constraint.conj))

\* C16: with k the world count computed from the given model, the guard's
\* world-count alternatives are "world count < k" exactly when k > 1 and
\* "world count > k" exactly when k < total_states - 1, and nothing else; so
\* for k = 1 no world-count alternative admits a candidate without worlds and
\* for k = total_states - 1 none admits a candidate with every state a world.
\* (When the count cannot be computed because is_world raises, there is no
\* world-count alternative.)
C16_WorldCountDeviation ==
    GuardBuilt =>
        LET k == CurrentWorlds(rediscovered_model)
            fewer == CountTerm("world_count", NoLetter, "<", k)
            more == CountTerm("world_count", NoLetter, ">", k)
            offered == WorldCountTerms(TermsOf(guard_constraint))
        IN  IF EvalRaises(rediscovered_model, "is_world") THEN offered = {}
            ELSE /\ fewer \in offered <=> k > 1
                 /\ more \in offered <=> k < Cardinality(all_states) - 1
                 /\ offered \subseteq {fewer, more}
                 /\ k = 1 =>
                       \A cand \in BreakCandidates : WorldCount(cand) = 0 =>
                           \A term \in offered : ~Holds(cand, term)
                 /\ k = Cardinality(all_states) - 1 =>
                       \A cand \in BreakCandidates :
                           WorldCount(cand) = Cardinality(all_states) =>
                               \A term \in offered : ~Holds(cand, term)

C16_Witness ==
    /\ GuardBuilt
    /\ rediscovered_model.faulty = {}
    /\ CurrentWorlds(rediscovered_model) = Cardinality(all_states) - 1
    /\ WorldCountTerms(TermsOf(guard_constraint))
          = {CountTerm("world_count", NoLetter, "<", Cardinality(all_states) - 1)}

\* C17 as stated: when the model's world count exceeds half the number of
\* states, every candidate satisfying the attempt-1 constraint has at most 2
\* worlds; otherwise every satisfying candidate has at least (number of
\* states - 2) worlds.
C17_AttemptOneForcesExtreme ==
    (1 \in DOMAIN stronger_constraints /\ ~EvalRaises(rediscovered_model, "is_world")) =>
        \A cand \in BreakCandidates :
            Satisfies(cand, stronger_constraints[1].conj) =>
                IF CurrentWorlds(rediscovered_model) > Cardinality(all_states) \div 2
                THEN WorldCount(cand) <= 2
                ELSE WorldCount(cand) >= Cardinality(all_states) - 2

ParthoodTerms(terms) == {term \in terms : term.kind = "parthood_count"}

\* C18: the constraint returned at attempt 2 or later (looked at when it has
\* just been built) is one disjunction whose
\* alternatives are "exactly 1 world" and "exactly all states are worlds"
\* (when the world count can be computed), for every letter all-verify,
\* none-verify, all-falsify and none-falsify, and, when is_part_of exists, one
\* parthood-density alternative over the n*(n-1) ordered pairs of distinct
\* states: "count <= max/4" when the count computed from the model exceeds
\* max/2 and "count >= 3*max/4" otherwise; nothing else is offered, and a
\* candidate satisfying any single alternative satisfies the constraint.
C18_AbsoluteExtremes ==
    \A a \in DOMAIN stronger_constraints :
        (a >= 2 /\ a = escape_attempts) =>
            LET built == stronger_constraints[a]
                terms == TermsOf(built)
                worlds == IF EvalRaises(rediscovered_model, "is_world") THEN {}
                          ELSE {CountTerm("world_count", NoLetter, "==", 1),
                                CountTerm("world_count", NoLetter, "==", Cardinality(all_states))}
                letters == UNION {{ExtremeTerm("all_verify", l), ExtremeTerm("none_verify", l),
                                   ExtremeTerm("all_falsify", l), ExtremeTerm("none_falsify", l)} :
                                      l \in Letters}
                max == Cardinality(all_states) * (Cardinality(all_states) - 1)
            IN  /\ ~built.none
                /\ Len(built.conj) = 1
                /\ terms \ ParthoodTerms(terms) = worlds \cup letters
                /\ Cardinality(ParthoodTerms(terms)) = IF has_is_part_of THEN 1 ELSE 0
                /\ IF 2 * CurrentParts(rediscovered_model) > max
                   THEN \A term \in ParthoodTerms(terms), cand \in BreakCandidates :
                           Holds(cand, term) <=> 4 * ParthoodCount(cand) <= max
                   ELSE \A term \in ParthoodTerms(terms), cand \in BreakCandidates :
                           Holds(cand, term) <=> 4 * ParthoodCount(cand) >= 3 * max
                /\ \A cand \in BreakCandidates :
                      (\E term \in terms : Holds(cand, term)) => Satisfies(cand, built.conj)

C18_Witness ==
    /\ has_is_part_of
    /\ 2 \in DOMAIN stronger_constraints
    /\ rediscovered_model.faulty = {}
    /\ rediscovered_model.is_part_of = StatePairs
    /\ CountTerm("parthood_count", NoLetter, "<=", MaxPossible \div 4)
          \in TermsOf(stronger_constraints[2])
    /\ CountTerm("world_count", NoLetter, "==", 1) \in TermsOf(stronger_constraints[2])

\* C19 as stated (first half): whatever the attempt, a candidate that
\* satisfies the escalated constraint built from a model also satisfies the
\* guard's constraint built from the same model.
C19_StrongerImpliesGuard ==
    (GuardBuilt /\ ~guard_constraint.none) =>
        \A a \in DOMAIN stronger_constraints, cand \in BreakCandidates :
            (~stronger_constraints[a].none /\ Satisfies(cand, stronger_constraints[a].conj))
                => Satisfies(cand, guard_constraint.conj)

\* C20: whenever the guard returns a constraint for a model, the model's own
\* valuation makes every alternative false, so it does not satisfy the
\* constraint built from it.
C20_GuardExcludesOwnModel ==
    (GuardBuilt /\ ~guard_constraint.none) =>
        /\ \A term \in TermsOf(guard_constraint) :
              ~Holds(Valuation(rediscovered_model), term)
        /\ ~Satisfies(Valuation(rediscovered_model), guard_constraint.conj)

C20_Witness ==
    /\ GuardBuilt
    /\ ~guard_constraint.none
    /\ rediscovered_model.faulty = {}
    /\ rediscovered_model.verifies = ZeroTopVerifyP
    /\ Cardinality(rediscovered_model.is_world) = 2
    /\ Cardinality(TermsOf(guard_constraint)) = 6

\* C21 as stated: at no escalation attempt does the model itself satisfy the
\* escalated constraint built from it (also when it has exactly one world, at
\* most two worlds, or a letter without verifiers).
C21_StrongerExcludesOwnModel ==
    \A a \in DOMAIN stronger_constraints :
        ~stronger_constraints[a].none =>
            ~Satisfies(Valuation(rediscovered_model), stronger_constraints[a].conj)

\* The candidate and the model disagree on an instance of a predicate that
\* could be evaluated on the model.
DiffersOnEvaluable(sem_has_part, cand, z3_model) ==
    \/ /\ ~EvalRaises(z3_model, "verifies")
       /\ \E l \in Letters, s \in all_states :
             EvalVerifies(cand, l, s) # EvalVerifies(z3_model, l, s)
    \/ /\ ~EvalRaises(z3_model, "falsifies")
       /\ \E l \in Letters, s \in all_states :
             EvalFalsifies(cand, l, s) # EvalFalsifies(z3_model, l, s)
    \/ /\ sem_has_part /\ ~EvalRaises(z3_model, "is_part_of")
       /\ \E s1 \in all_states, s2 \in all_states :
             EvalIsPartOf(cand, s1, s2) # EvalIsPartOf(z3_model, s1, s2)
    \/ /\ ~EvalRaises(z3_model, "possible")
       /\ \E s \in all_states : EvalPossible(cand, s) # EvalPossible(z3_model, s)
    \/ /\ ~EvalRaises(z3_model, "is_world")
       /\ \E s \in all_states : EvalIsWorld(cand, s) # EvalIsWorld(z3_model, s)

\* C22: when one previous model of the batch yields no difference term and
\* another yields at least one, the builder does not raise, the returned
\* conjunction has one non-empty disjunction per model that yields a term (none
\* for the empty model), and a candidate satisfies it exactly when it differs
\* from each of those remaining models.
C22_EmptyDisjunctionOmitted ==
    LET usable == {i \in 1 .. Len(previous_models) :
                      SomeEvaluation(has_is_part_of, previous_models[i])}
    IN  (/\ pc = "built"
         /\ usable # {}
         /\ usable # 1 .. Len(previous_models)) =>
            /\ ~diff_constraint.raised
            /\ Len(diff_constraint.conj) = Cardinality(usable)
            /\ \A j \in 1 .. Len(diff_constraint.conj) : diff_constraint.conj[j] # {}
            /\ \A cand \in Candidates :
                  Satisfies(cand, diff_constraint.conj) <=>
                      \A i \in usable :
                          DiffersOnEvaluable(has_is_part_of, cand, previous_models[i])

C22_Witness ==
    /\ pc = "built"
    /\ Len(previous_models) = 2
    /\ previous_models[1].faulty = AllFaulty
    /\ previous_models[2].faulty = {}
    /\ ~diff_constraint.raised
    /\ Len(diff_constraint.conj) = 1
    /\ \E cand \in Candidates : Satisfies(cand, diff_constraint.conj)
    /\ \E cand \in Candidates : ~Satisfies(cand, diff_constraint.conj)

\* The members a letter's list has when each membership evaluation is skipped
\* on its own: the possible states of the structure at which the predicate
\* could be evaluated on the structure's model and is true.
IsolatedVerifiers(struct, letter) ==
    {state \in struct.z3_possible_states :
        ~EvalRaises(struct.z3_model, "verifies") /\ EvalVerifies(struct.z3_model, letter, state)}
IsolatedFalsifiers(struct, letter) ==
    {state \in struct.z3_possible_states :
        ~EvalRaises(struct.z3_model, "falsifies") /\ EvalFalsifies(struct.z3_model, letter, state)}

\* C23 as stated: a membership evaluation that faults skips only that
\* membership; every other membership, also the other predicates of the same
\* state and letter, is reflected in the record as if no fault had occurred: a
\* letter has an entry exactly when its verifiers or falsifiers, each taken
\* over the evaluations that do not fault, changed, and the entry lists them.
C23_FaultIsolation ==
    pc = "calculated" =>
        \A l \in Letters :
            LET ov == IsolatedVerifiers(previous_structure, l)
                nv == IsolatedVerifiers(new_structure, l)
                of == IsolatedFalsifiers(previous_structure, l)
                nf == IsolatedFalsifiers(new_structure, l)
            IN  /\ l \in DOMAIN differences.sentence_letters <=> (ov # nv \/ of # nf)
                /\ l \in DOMAIN differences.sentence_letters =>
                      /\ differences.sentence_letters[l].old = <<ov, of>>
                      /\ differences.sentence_letters[l].new = <<nv, nf>>

\* C24: a non-empty result of the structure's detect_model_differences is
\* returned unchanged; when the structure has no hook, or the hook raises or
\* returns an empty result, the outcome is the default algorithm's record for
\* the same two structures; no exception reaches the caller.
C24_HookFallback ==
    pc = "compared" =>
        LET default == calculate_default_differences(has_is_part_of,
                           StructureOf(new_structure.z3_model), previous_structure)
        IN  IF "detect_model_differences" \in DOMAIN new_structure
            THEN LET hook == new_structure.detect_model_differences
                 IN  IF ~hook.raises /\ hook.differences # EmptyResult
                     THEN differences = hook.differences
                     ELSE differences = default
            ELSE differences = default

C24_Witness ==
    /\ pc = "compared"
    /\ "detect_model_differences" \in DOMAIN new_structure
    /\ new_structure.detect_model_differences.raises
    /\ new_structure.z3_model.verifies # previous_structure.z3_model.verifies
    /\ DOMAIN differences.sentence_letters # {}

\* C25: with a part-whole predicate, the keys of the parthood map are pairs of
\* distinct states of the union of both structures' possible states, never
\* both orders of one pair; for the one visited order <<a, b>> of each
\* unordered pair, the value in a model is that model's parthood when both
\* endpoints are possible states of its structure and False otherwise, and the
\* pair is a key exactly when the old and the new value differ, recorded with
\* both values.  Without the predicate the map is empty.
C25_ParthoodDelta ==
    pc = "calculated" =>
        LET union == previous_structure.z3_possible_states
                        \cup new_structure.z3_possible_states
            keys == DOMAIN differences.parthood
            old(a, b) == /\ {a, b} \subseteq previous_structure.z3_possible_states
                         /\ <<a, b>> \in previous_structure.z3_model.is_part_of
            new(a, b) == /\ {a, b} \subseteq new_structure.z3_possible_states
                         /\ <<a, b>> \in new_structure.z3_model.is_part_of
        IN  IF ~has_is_part_of THEN keys = {}
            ELSE /\ keys \subseteq union \X union
                 /\ \A pr \in keys : pr[1] # pr[2] /\ <<pr[2], pr[1]>> \notin keys
                 /\ \A a \in union, b \in union :
                       a < b =>
                           /\ <<a, b>> \in keys <=> old(a, b) # new(a, b)
                           /\ <<a, b>> \in keys =>
                                 differences.parthood[<<a, b>>]
                                     = [old |-> old(a, b), new |-> new(a, b)]

C25_Witness ==
    /\ pc = "calculated"
    /\ has_is_part_of
    /\ previous_structure.z3_possible_states = {0}
    /\ new_structure.z3_possible_states = all_states
    /\ previous_structure.z3_model.is_part_of = LeqRel
    /\ new_structure.z3_model.is_part_of = LeqRel
    /\ <<0, Top>> \in DOMAIN differences.parthood
    /\ differences.parthood[<<0, Top>>] = [old |-> FALSE, new |-> TRUE]
    /\ <<Top, 0>> \notin DOMAIN differences.parthood

\* No "count < c-1" and no "count > c+1" applies to the count c.
NeitherBranch(c) == ~(c > 1) /\ ~(c < Cardinality(all_states) - 1)

\* No per-letter disjunct can be constructed from position i on: the first
\* evaluation raises, or the letter's counts fall where neither branch applies
\* and the same holds for the letters after it.
RECURSIVE NoLetterDisjunct(_, _)
NoLetterDisjunct(z3_model, i) ==
    \/ i > Len(sentence_letters)
    \/ EvalRaises(z3_model, "verifies")
    \/ /\ NeitherBranch(Cardinality(z3_model.verifies[sentence_letters[i]]))
       /\ \/ EvalRaises(z3_model, "falsifies")
          \/ /\ NeitherBranch(Cardinality(z3_model.falsifies[sentence_letters[i]]))
             /\ NoLetterDisjunct(z3_model, i + 1)

\* C26: the guard returns None exactly when neither a world-count disjunct nor
\* a per-letter disjunct could be constructed for the model (an evaluation
\* raised, or the count is one for which neither branch applies); what it
\* returns otherwise is one disjunction with at least one alternative.
C26_NoneWhenNothingBuilt ==
    GuardBuilt =>
        /\ guard_constraint.none <=>
              /\ \/ EvalRaises(rediscovered_model, "is_world")
                 \/ /\ ~(Cardinality(rediscovered_model.is_world) > 1)
                    /\ ~(Cardinality(rediscovered_model.is_world) < Cardinality(all_states) - 1)
              /\ NoLetterDisjunct(rediscovered_model, 1)
        /\ guard_constraint.none => guard_constraint.conj = <<>>
        /\ ~guard_constraint.none =>
              /\ Len(guard_constraint.conj) = 1
              /\ guard_constraint.conj[1] # {}

C26_Witness ==
    /\ GuardBuilt
    /\ guard_constraint.none
    /\ EvalRaises(rediscovered_model, "is_world")
    /\ EvalRaises(rediscovered_model, "verifies")
    /\ Cardinality(rediscovered_model.is_world) = 2

\* The times listed in a list of times.
TimeSet(times) == {times[i] : i \in 1 .. Len(times)}

\* Every time of the interval is listed once, in exactly one of the two lists,
\* and nothing else is listed.
PartitionsInterval(profile, interval) ==
    /\ TimeSet(profile[1]) \cup TimeSet(profile[2]) = interval[1] .. interval[2]
    /\ TimeSet(profile[1]) \cap TimeSet(profile[2]) = {}
    /\ Len(profile[1]) + Len(profile[2]) = Cardinality(interval[1] .. interval[2])

\* Some world of the left argument has no entry in the right argument's
\* extension or no time interval.
WorldMissing ==
    \E world_id \in DOMAIN leftarg_extension :
        world_id \notin DOMAIN rightarg_extension \/ world_id \notin DOMAIN world_time_intervals

C28_UntilVacuouslyTrue ==
    (pc = "until" /\ new_truth_condition.raised = "") =>
        \A world_id \in DOMAIN leftarg_extension :
            LET interval == world_time_intervals[world_id]
            IN  TimeSet(rightarg_extension[world_id][1]) \cap (interval[1] .. interval[2]) = {}
                    => TimeSet(new_truth_condition.extension[world_id][1])
                           = interval[1] .. interval[2]

\* C29 as stated: Since's evaluation returns a dictionary with an entry for
\* every world of the left argument, in which a time t of the world's interval
\* is in true_times exactly when the right argument is true at some t' with
\* start <= t' < t and the left argument is true at every time of (t', t], and
\* in false_times otherwise.
C29_SinceTruthCondition ==
    (pc = "since" /\ ~WorldMissing) =>
        /\ new_truth_condition.raised = "" /\ ~new_truth_condition.none
        /\ DOMAIN new_truth_condition.extension = DOMAIN leftarg_extension
        /\ \A world_id \in DOMAIN leftarg_extension :
              LET interval == world_time_intervals[world_id]
                  left == TimeSet(leftarg_extension[world_id][1])
                  right == TimeSet(rightarg_extension[world_id][1])
                  profile == new_truth_condition.extension[world_id]
              IN  /\ PartitionsInterval(profile, interval)
                  /\ \A t \in interval[1] .. interval[2] :
                        t \in TimeSet(profile[1]) <=>
                            \E t2 \in Times :
                                /\ interval[1] <= t2 /\ t2 < t
                                /\ t2 \in right
                                /\ \A u \in Times : (t2 < u /\ u <= t) => u \in left

\* The argument is true at t and at every time since a time of the interval
\* at which it was not the case.
TrueSinceItWasNot(world_id, t) ==
    /\ t \in TimeSet(leftarg_extension[world_id][1])
    /\ \E t2 \in Times :
          /\ world_time_intervals[world_id][1] <= t2 /\ t2 < t
          /\ t2 \in TimeSet(leftarg_extension[world_id][2])
          /\ \A u \in Times : (t2 < u /\ u <= t) => u \in TimeSet(leftarg_extension[world_id][1])

\* C30 as stated: evaluating And(Until(Not A, A), A) gives a truth condition
\* in which PreProg A is true at every time at which A is true and has been
\* true at all times since it was not the case; and evaluating
\* And(Since(Not A, A), A) gives a truth condition for PastProg A.
C30_ProgressiveTrueWhenHeld ==
    /\ (pc = "preprog" /\ ~WorldMissing) =>
          /\ new_truth_condition.raised = "" /\ ~new_truth_condition.none
          /\ \A world_id \in DOMAIN new_truth_condition.extension :
                \A t \in Times :
                    TrueSinceItWasNot(world_id, t)
                        => t \in TimeSet(new_truth_condition.extension[world_id][1])
    /\ (pc = "pastprog" /\ ~WorldMissing) =>
          new_truth_condition.raised = "" /\ ~new_truth_condition.none

====
